---- MODULE Spec2Model ----
(***************************************************************************)
(* A model of src/app.py, the Streamlit script of the Silver Analysis      *)
(* Dashboard.  One run of the script is a linear pipeline: four cached     *)
(* loaders, the price tab, the state-wise sales tab and the insights tab.  *)
(* Streamlit re-runs the whole script on every user interaction; the       *)
(* st.cache_data results live for the lifetime of the process.             *)
(*                                                                         *)
(* Units.  Kilograms of the daily series are kept in tenths of a kilogram  *)
(* (the code rounds them to one decimal); percentages are kept in          *)
(* hundredths of a percent (the code rounds them to two decimals); a       *)
(* sample of random.random() is kept in millionths.                        *)
(***************************************************************************)
EXTENDS Integers, Sequences, FiniteSets, TLC

(***************************************************************************)
(* Bounds of the model.                                                    *)
(***************************************************************************)
\* rows of historical_silver_price.csv
MaxPrices == 2
\* rows of state_wise_silver_purchased_kg.csv in a run of the whole script
MaxStates == 5
\* rows of a state table handed to one aggregation
MaxRows == 4
\* rows of a state table whose percentage shares are summed
MaxShareRows == 13
\* the largest n handed to top_n
MaxN == 5
\* draws other callers take from the process-wide generator
MaxOtherDraws == 1
\* times the user clears the cache
MaxClears == 1
\* the samples of random() the draws are chosen from are the multiples of
\* 1 / MaxLevel, the last taken just below 1
MaxLevel == 2

(***************************************************************************)
(* Generic helpers.                                                        *)
(***************************************************************************)
Abs(x) == IF x < 0 THEN -x ELSE x

Min2(a, b) == IF a <= b THEN a ELSE b

RECURSIVE SumSeq(_)
SumSeq(s) == IF s = <<>> THEN 0 ELSE Head(s) + SumSeq(Tail(s))

\* the column `col` of a data frame (a sequence of row records)
Column(df, col) == [i \in 1..Len(df) |-> df[i][col]]

\* A displayed number, Python's nan, and the text "N/A".
Num(v) == [kind |-> "num", v |-> v]
NaN == [kind |-> "nan", v |-> 0]
NA == [kind |-> "N/A", v |-> 0]

\* The integers nearest to num/den (num >= 0, den > 0).  A floating-point
\* round() of a quotient that is an exact tie may land on either side,
\* depending on the rounding of the division before it: both are outcomes.
RoundChoices(num, den) ==
    LET q == num \div den
        r == num % den
    IN  IF 2 * r < den THEN {q}
        ELSE IF 2 * r > den THEN {q + 1}
        ELSE {q, q + 1}

\* Python's format(x, ".0f") of an exactly representable quotient: ties go
\* to the even neighbour.
RoundHalfEven(num, den) ==
    LET q == num \div den
        r == num % den
    IN  IF 2 * r < den THEN q
        ELSE IF 2 * r > den THEN q + 1
        ELSE IF q % 2 = 0 THEN q ELSE q + 1

(***************************************************************************)
(* Calendar: pandas Timestamp arithmetic on the proleptic Gregorian        *)
(* calendar, as datetime.date computes it.                                 *)
(***************************************************************************)
Date(y, m, d) == [year |-> y, month |-> m, day |-> d]

IsLeap(y) == (y % 4 = 0) /\ ((y % 100 # 0) \/ (y % 400 = 0))

DaysInMonth(y, m) ==
    IF m = 2 THEN (IF IsLeap(y) THEN 29 ELSE 28)
    ELSE IF m \in {4, 6, 9, 11} THEN 30 ELSE 31

DaysBeforeYear(y) ==
    LET p == y - 1 IN p * 365 + (p \div 4) - (p \div 100) + (p \div 400)

RECURSIVE DaysBeforeMonth(_, _)
DaysBeforeMonth(y, m) ==
    IF m = 1 THEN 0 ELSE DaysBeforeMonth(y, m - 1) + DaysInMonth(y, m - 1)

\* date.toordinal(): 1 for 0001-01-01
Ordinal(dt) == DaysBeforeYear(dt.year) + DaysBeforeMonth(dt.year, dt.month) + dt.day

\* Timestamp.dayofweek: Monday = 0 .. Sunday = 6
DayOfWeek(dt) == (Ordinal(dt) + 6) % 7

DayNames == <<"Monday", "Tuesday", "Wednesday", "Thursday", "Friday",
              "Saturday", "Sunday">>

\* DatetimeIndex.day_name()
DayName(dt) == DayNames[DayOfWeek(dt) + 1]

\* the day after dt
NextDay(dt) ==
    IF dt.day < DaysInMonth(dt.year, dt.month) THEN Date(dt.year, dt.month, dt.day + 1)
    ELSE IF dt.month < 12 THEN Date(dt.year, dt.month + 1, 1)
    ELSE Date(dt.year + 1, 1, 1)

\* the ordinal of the Monday that starts ISO week 1 of year y
IsoWeek1Monday(y) ==
    LET firstday == DaysBeforeYear(y) + 1
        firstweekday == (firstday + 6) % 7
        week1monday == firstday - firstweekday
    IN  IF firstweekday > 3 THEN week1monday + 7 ELSE week1monday

\* Series.dt.isocalendar().week
IsoWeek(dt) ==
    LET today == Ordinal(dt)
        off == today - IsoWeek1Monday(dt.year)
    IN  IF off < 0 THEN ((today - IsoWeek1Monday(dt.year - 1)) \div 7) + 1
        ELSE IF (off \div 7) >= 52 /\ today >= IsoWeek1Monday(dt.year + 1) THEN 1
        ELSE (off \div 7) + 1

\* pd.date_range(start, end, freq='D'): every day from start to end, both
\* ends included
\* a date range that leaves its end date out
RECURSIVE DateRangeHalfOpen(_, _)
DateRangeHalfOpen(start, end) ==
    IF Ordinal(start) >= Ordinal(end) THEN <<>>
    ELSE <<start>> \o DateRangeHalfOpen(NextDay(start), end)

RECURSIVE DateRange(_, _)
DateRange(start, end) ==
    IF Ordinal(start) > Ordinal(end) THEN <<>>
    ELSE <<start>> \o DateRange(NextDay(start), end)

\* the window of the daily series
StartDate == Date(2026, 1, 1)
EndDate == Date(2026, 1, 30)

(***************************************************************************)
(* The process-wide generator of Python's random module.  Its state is the *)
(* seed it was last seeded with and the number of samples drawn since.     *)
(***************************************************************************)
\* random.seed(42)
SEED == 42

\* the seeds the interpreter may have taken from the operating system
OsSeeds == {7}

\* random.random() after random.seed(42): the first 46 samples of CPython's
\* Mersenne Twister, in millionths (truncated)
MT42 == << 639426,  25010, 275029, 223210, 736471, 676699, 892179,  86938,
           421921,  29797, 218637, 505355,  26535, 198837, 649884, 544941,
           220440, 589265, 809430,   6498, 805819, 698139, 340250, 155479,
           957213, 336594,  92745,  96716, 847494, 603726, 807128, 729731,
           536228, 973115, 378534, 552040, 829404, 618519, 861706, 577352,
           704571,  45824, 227898, 289387,  79791, 232790 >>

\* The pos-th sample of the stream of `seed`, in millionths.  Outside the
\* tabulated samples the stream is some fixed function of seed and position.
Stream(seed, pos) ==
    IF seed = SEED /\ pos \in 1..Len(MT42) THEN MT42[pos]
    ELSE (seed * 7919 + pos * 104729 + pos * pos * 31) % 1000000

\* a seed call that leaves the generator as it is
SeedRngIgnored(g, a) == g

\* random.seed(a): the stream of `a`, nothing drawn yet
SeedRng(g, a) == [seed |-> a, pos |-> 0]

\* the state after one more sample
Advance(g) == [g EXCEPT !.pos = @ + 1]

\* random.uniform(a, b) = a + (b - a) * random(), in millionths of a kg,
\* drawn in state g (the sample is that of the advanced state)
Uniform(g, a, b) == a * 1000000 + (b - a) * Stream(g.seed, g.pos + 1)

\* the sample random() returns in state g, in millionths
Sample(g) == Stream(g.seed, g.pos + 1)

\* a + (b - a) * u for a sample u of random(), in millionths of a kg
UniformAt(a, b, u) == a * 1000000 + (b - a) * u

\* round(x, 1) of x millionths, in tenths
Round1(x) == (x + 50000) \div 100000

(***************************************************************************)
(* load_india_january_data: the body of the loop for one date, then the    *)
(* loop, then the function.                                                *)
(***************************************************************************)

\* a day's quantity with the holiday constant of 26 January left out
DailyQuantityNoHoliday(dt, u_weekend, u_mid, u_end, u_noise) ==
    LET base == 592 * 1000000
        b1 == IF dt.dayofweek >= 5 THEN base + UniformAt(90, 150, u_weekend) ELSE base
        b2 == IF 14 <= dt.day /\ dt.day <= 16 THEN b1 + UniformAt(120, 180, u_mid) ELSE b1
        b3 == IF dt.day >= 26 THEN b2 + UniformAt(150, 210, u_end) ELSE b2
        b5 == IF dt.day = 1 THEN b3 + 150 * 1000000 ELSE b3
    IN  Round1(b5 + UniformAt(-50, 100, u_noise))

\* a day's quantity with the weekend sample taken off instead of added
DailyQuantityWeekendCut(dt, u_weekend, u_mid, u_end, u_noise) ==
    LET base == 592 * 1000000
        b1 == IF dt.dayofweek >= 5 THEN base - UniformAt(90, 150, u_weekend) ELSE base
        b2 == IF 14 <= dt.day /\ dt.day <= 16 THEN b1 + UniformAt(120, 180, u_mid) ELSE b1
        b3 == IF dt.day >= 26 THEN b2 + UniformAt(150, 210, u_end) ELSE b2
        b4 == IF dt.day = 26 THEN b3 + 200 * 1000000 ELSE b3
        b5 == IF dt.day = 1 THEN b4 + 150 * 1000000 ELSE b4
    IN  Round1(b5 + UniformAt(-50, 100, u_noise))

\* Lines 52-76 for one date: the rounded quantity in tenths of a kg, given
\* the samples of random() its four uniform calls get (a sample whose call
\* the date does not make is not read)
DailyQuantity(dt, u_weekend, u_mid, u_end, u_noise) ==
    LET base == 592 * 1000000
        b1 == IF dt.dayofweek >= 5 THEN base + UniformAt(90, 150, u_weekend) ELSE base
        b2 == IF 14 <= dt.day /\ dt.day <= 16 THEN b1 + UniformAt(120, 180, u_mid) ELSE b1
        b3 == IF dt.day >= 26 THEN b2 + UniformAt(150, 210, u_end) ELSE b2
        b4 == IF dt.day = 26 THEN b3 + 200 * 1000000 ELSE b3
        b5 == IF dt.day = 1 THEN b4 + 150 * 1000000 ELSE b4
    IN  Round1(b5 + UniformAt(-50, 100, u_noise))

\* One iteration: the generator state g, the date dt.  The result is the
\* appended quantity and the generator state after the iteration's draws.
DailyPurchase(g, dt) ==
    LET weekend == dt.dayofweek >= 5
        mid == 14 <= dt.day /\ dt.day <= 16
        monthEnd == dt.day >= 26
        g1 == IF weekend THEN Advance(g) ELSE g
        g2 == IF mid THEN Advance(g1) ELSE g1
        g3 == IF monthEnd THEN Advance(g2) ELSE g2
    IN  [kg |-> DailyQuantity(dt, Sample(g), Sample(g1), Sample(g2), Sample(g3)),
         rng |-> Advance(g3)]

\* a Timestamp of the DatetimeIndex, with the attributes the loop reads
Stamp(dt) == [year |-> dt.year, month |-> dt.month, day |-> dt.day,
              dayofweek |-> DayOfWeek(dt)]

\* for date in dates: ... daily_purchases.append(...)
RECURSIVE DailyLoop(_, _, _)
DailyLoop(dates, g, daily_purchases) ==
    IF dates = <<>> THEN [daily_purchases |-> daily_purchases, rng |-> g]
    ELSE LET it == DailyPurchase(g, Stamp(Head(dates)))
         IN  DailyLoop(Tail(dates), it.rng, Append(daily_purchases, it.kg))

\* The function body on a cache miss: the returned frame and the state the
\* process-wide generator is left in.
GenerateIndiaJanuary(g) ==
    LET dates == DateRange(StartDate, EndDate)
        loop == DailyLoop(dates, SeedRng(g, SEED), <<>>)
    IN  [df |-> [i \in 1..Len(dates) |->
                    [Date |-> dates[i],
                     Day |-> dates[i].day,
                     DayOfWeek |-> DayName(dates[i]),
                     Purchase_KG |-> loop.daily_purchases[i]]],
         rng |-> loop.rng]

(***************************************************************************)
(* Data frames of the state table.  A row keeps its index label, as pandas *)
(* does through sorting and selection.                                     *)
(***************************************************************************)
StateRow(i, name, kg) == [index |-> i, State |-> name, Silver_Purchased_kg |-> kg]

\* df.reset_index(drop=True): the labels 0, 1, ... in the frame's order
ResetIndex(df) == [i \in 1..Len(df) |-> [df[i] EXCEPT !.index = i - 1]]

\* Series.sum() of an integer column
SumColumn(df, col) == SumSeq(Column(df, col))

\* Series.max() and Series.min() of a non-empty integer column
MaxColumn(df, col) == CHOOSE v \in {df[i][col] : i \in 1..Len(df)} :
                         \A j \in 1..Len(df) : df[j][col] <= v

MinColumn(df, col) == CHOOSE v \in {df[i][col] : i \in 1..Len(df)} :
                         \A j \in 1..Len(df) : df[j][col] >= v

\* Series.idxmax() / idxmin(): the position of the first occurrence
IdxMax(df, col) == CHOOSE i \in 1..Len(df) :
                      /\ df[i][col] = MaxColumn(df, col)
                      /\ \A j \in 1..(i - 1) : df[j][col] # df[i][col]

IdxMin(df, col) == CHOOSE i \in 1..Len(df) :
                      /\ df[i][col] = MinColumn(df, col)
                      /\ \A j \in 1..(i - 1) : df[j][col] # df[i][col]

\* df.sort_values(col, ascending=asc) with the default kind, quicksort, which
\* is not stable: every order of the rows that is sorted by col is an
\* outcome.  S is the set of positions still to place.
RECURSIVE SortOrders(_, _, _, _)
SortOrders(df, S, col, asc) ==
    IF S = {} THEN {<<>>}
    ELSE LET first == {i \in S : \A j \in S :
                          IF asc THEN df[i][col] <= df[j][col]
                                 ELSE df[i][col] >= df[j][col]}
         IN  UNION {{<<df[i]>> \o t : t \in SortOrders(df, S \ {i}, col, asc)} :
                    i \in first}

SortValues(df, col, asc) == SortOrders(df, 1..Len(df), col, asc)

\* the place of row r in a frame sorted descending by col, behind every row
\* that is at least as large: rows inserted in input order keep it among ties
\* an insertion that puts a row before the rows of equal value
RECURSIVE InsertDescBeforeTies(_, _, _)
InsertDescBeforeTies(sorted, r, col) ==
    IF sorted = <<>> THEN <<r>>
    ELSE IF Head(sorted)[col] > r[col]
         THEN <<Head(sorted)>> \o InsertDescBeforeTies(Tail(sorted), r, col)
         ELSE <<r>> \o sorted

RECURSIVE InsertDesc(_, _, _)
InsertDesc(sorted, r, col) ==
    IF sorted = <<>> THEN <<r>>
    ELSE IF Head(sorted)[col] >= r[col]
         THEN <<Head(sorted)>> \o InsertDesc(Tail(sorted), r, col)
         ELSE <<r>> \o sorted

RECURSIVE SortDescFirst(_, _, _)
SortDescFirst(df, sorted, col) ==
    IF df = <<>> THEN sorted
    ELSE SortDescFirst(Tail(df), InsertDesc(sorted, Head(df), col), col)

\* df.nlargest(n, col), keep='first': the first n rows in descending order
\* of col, rows of equal value in the order they have in df
nlargest(df, n, col) ==
    IF n <= 0 THEN <<>>
    ELSE SubSeq(SortDescFirst(df, <<>>, col), 1, Min2(n, Len(df)))

(***************************************************************************)
(* Percentage shares (lines 93-95 and 389-391).                            *)
(***************************************************************************)
\* (value / total * 100).round(2), in hundredths of a percent
\* a share cut off after its second decimal instead of rounded
ShareOfTotalTruncated(value, total) == {(value * 10000) \div total}

ShareOfTotal(value, total) == RoundChoices(value * 10000, total)

\* every sequence that takes its i-th entry from the i-th set
RECURSIVE Product(_)
Product(sets) ==
    IF sets = <<>> THEN {<<>>}
    ELSE {<<c>> \o t : c \in Head(sets), t \in Product(Tail(sets))}

\* df[name] = column
AddColumn(df, name, column) ==
    [i \in 1..Len(df) |->
        [f \in (DOMAIN df[i]) \cup {name} |->
            IF f = name THEN column[i] ELSE df[i][f]]]

\* the Percentage columns line 95 can produce for the frame df
PercentageColumns(df) ==
    LET total_purchases == SumColumn(df, "Silver_Purchased_kg")
    IN  Product([i \in 1..Len(df) |->
                    ShareOfTotal(df[i].Silver_Purchased_kg, total_purchases)])

\* (kg / 12 * 1.1).round(0).astype(int), line 98
JanColumns(df) ==
    Product([i \in 1..Len(df) |-> RoundChoices(df[i].Silver_Purchased_kg * 11, 120)])

\* The body of load_state_wise_january_breakdown on the state table `sales`:
\* the frames it can return.
StateWiseJanuaryBreakdown(sales) ==
    UNION {UNION {SortValues(AddColumn(AddColumn(sales, "Percentage", pct),
                                       "Jan_2026_Purchase_KG", jan),
                             "Jan_2026_Purchase_KG", FALSE) :
                  jan \in JanColumns(sales)} :
           pct \in PercentageColumns(sales)}

\* top_5_display of lines 389-391: the % of Total column over the total of
\* the whole table
Top5Display(top_5_states, sales) ==
    LET total == SumColumn(sales, "Silver_Purchased_kg")
    IN  {AddColumn(top_5_states, "PctOfTotal", pct) :
            pct \in Product([i \in 1..Len(top_5_states) |->
                        ShareOfTotal(top_5_states[i].Silver_Purchased_kg, total)])}

(***************************************************************************)
(* Regional rollup (lines 591-608).                                        *)
(***************************************************************************)
\* the dict `regions`, in insertion order
regions == <<
    [Region |-> "South", states_list |->
        <<"Andhra Pradesh", "Karnataka", "Kerala", "Tamil Nadu", "Telangana">>],
    [Region |-> "West", states_list |-> <<"Gujarat", "Maharashtra", "Goa">>],
    [Region |-> "North", states_list |->
        <<"Delhi", "Haryana", "Himachal Pradesh", "Jammu & Kashmir",
          "Punjab", "Rajasthan", "Uttarakhand", "Ladakh">>],
    [Region |-> "East", states_list |->
        <<"Bihar", "Jharkhand", "Odisha", "West Bengal">>],
    [Region |-> "Central", states_list |->
        <<"Chhattisgarh", "Madhya Pradesh", "Uttar Pradesh">>],
    [Region |-> "North-East", states_list |->
        <<"Arunachal Pradesh", "Assam", "Manipur", "Meghalaya",
          "Mizoram", "Nagaland", "Sikkim", "Tripura">>] >>

\* Series.isin(values)
IsIn(x, values) == \E k \in 1..Len(values) : values[k] = x

\* state_sales[state_sales['State'].isin(states_list)]['Silver_Purchased_kg'].sum()
RegionTotal(sales, states_list) ==
    SumColumn(SelectSeq(sales, LAMBDA r : IsIn(r.State, states_list)),
              "Silver_Purchased_kg")

\* a loop that does not start each region's total from zero
RegionalDataRunning(sales) ==
    [k \in 1..Len(regions) |->
        [Region |-> regions[k].Region,
         Total_Purchase_kg |->
             SumSeq([j \in 1..k |-> RegionTotal(sales, regions[j].states_list)])]]

\* the list regional_data after the loop of lines 604-606
RegionalData(sales) ==
    [k \in 1..Len(regions) |->
        [Region |-> regions[k].Region,
         Total_Purchase_kg |-> RegionTotal(sales, regions[k].states_list)]]

(***************************************************************************)
(* Weekly rollup (lines 498-506).                                          *)
(***************************************************************************)
\* india_january['Week'] = india_january['Date'].dt.isocalendar().week
WithWeek(df) == AddColumn(df, "Week", [i \in 1..Len(df) |-> IsoWeek(df[i].Date)])

\* the keys of a groupby, which pandas sorts ascending
RECURSIVE SortedKeys(_)
SortedKeys(S) ==
    IF S = {} THEN <<>>
    ELSE LET k == CHOOSE x \in S : \A y \in S : x <= y
         IN  <<k>> \o SortedKeys(S \ {k})

\* a grouping that keeps the weeks of seven days only
GroupByWeekFullOnly(df) ==
    LET full == {w \in {df[i].Week : i \in 1..Len(df)} :
                    Len(SelectSeq(df, LAMBDA r : r.Week = w)) = 7}
        keys == SortedKeys(full)
    IN  [k \in 1..Len(keys) |->
            LET rows == SelectSeq(df, LAMBDA r : r.Week = keys[k])
            IN  [Week |-> keys[k],
                 Total |-> SumColumn(rows, "Purchase_KG"),
                 Avg |-> [num |-> SumColumn(rows, "Purchase_KG"), den |-> Len(rows)],
                 Days |-> Len(rows)]]

\* india_january.groupby('Week')['Purchase_KG'].agg(['sum','mean','count'])
\* .reset_index(); the mean is kept as the exact quotient sum / count
GroupByWeek(df) ==
    LET keys == SortedKeys({df[i].Week : i \in 1..Len(df)})
    IN  [k \in 1..Len(keys) |->
            LET rows == SelectSeq(df, LAMBDA r : r.Week = keys[k])
            IN  [Week |-> keys[k],
                 Total |-> SumColumn(rows, "Purchase_KG"),
                 Avg |-> [num |-> SumColumn(rows, "Purchase_KG"), den |-> Len(rows)],
                 Days |-> Len(rows)]]

week_labels == <<"Week 1 (1-4 Jan)", "Week 2 (5-11 Jan)", "Week 3 (12-18 Jan)",
                 "Week 4 (19-25 Jan)", "Week 5 (26-30 Jan)">>

(***************************************************************************)
(* Price filter and price statistics (lines 212-261).                      *)
(***************************************************************************)
PriceFilters == {"All Prices", "<= 20000", "20000 - 30000", ">= 30000"}

\* a middle band that takes the price 20000 as well
ApplyPriceFilterClosedBand(df, f) ==
    IF f = "<= 20000"
    THEN SelectSeq(df, LAMBDA r : r.Silver_Price_INR_per_kg <= 20000)
    ELSE IF f = "20000 - 30000"
    THEN SelectSeq(df, LAMBDA r : r.Silver_Price_INR_per_kg >= 20000
                               /\ r.Silver_Price_INR_per_kg <= 30000)
    ELSE IF f = ">= 30000"
    THEN SelectSeq(df, LAMBDA r : r.Silver_Price_INR_per_kg >= 30000)
    ELSE df

\* lines 220-229
ApplyPriceFilter(df, f) ==
    IF f = "<= 20000"
    THEN SelectSeq(df, LAMBDA r : r.Silver_Price_INR_per_kg <= 20000)
    ELSE IF f = "20000 - 30000"
    THEN SelectSeq(df, LAMBDA r : r.Silver_Price_INR_per_kg > 20000
                               /\ r.Silver_Price_INR_per_kg <= 30000)
    ELSE IF f = ">= 30000"
    THEN SelectSeq(df, LAMBDA r : r.Silver_Price_INR_per_kg >= 30000)
    ELSE df

\* Series.max(), .min() and .mean() as the metric shows them: pandas gives
\* nan for an empty series, and format(nan, ",.0f") is the text "nan"
MaxMetric(df, col) == IF df = <<>> THEN NaN ELSE Num(MaxColumn(df, col))

MinMetric(df, col) == IF df = <<>> THEN NaN ELSE Num(MinColumn(df, col))

MeanMetric(df, col) ==
    IF df = <<>> THEN NaN ELSE Num(RoundHalfEven(SumColumn(df, col), Len(df)))

\* lines 255-261: the percent change in hundredths, or "N/A"
ChangeMetrics(df) ==
    IF Len(df) > 1
    THEN LET first == df[1].Silver_Price_INR_per_kg
             last == df[Len(df)].Silver_Price_INR_per_kg
         IN  IF last >= first
             THEN {Num(c) : c \in RoundChoices((last - first) * 10000, first)}
             ELSE {Num(-c) : c \in RoundChoices((first - last) * 10000, first)}
    ELSE {NA}

(***************************************************************************)
(* The input files and the remote resource.                                *)
(***************************************************************************)
MonthAbbr == <<"Jan", "Feb", "Mar", "Apr", "May", "Jun",
               "Jul", "Aug", "Sep", "Oct", "Nov", "Dec">>

\* prices of the historical table: the two thresholds of the filter, a price
\* below them, one between them and one above them
PriceLevels == {15000, 20000, 25000, 30000, 35000}

\* historical_silver_price.csv: the last Len(prices) months of 2025
HistCsv(prices) ==
    [i \in 1..Len(prices) |->
        [index |-> i - 1, Year |-> 2025,
         Month |-> MonthAbbr[12 - Len(prices) + i],
         Silver_Price_INR_per_kg |-> prices[i]]]

HistCsvs == UNION {{HistCsv(p) : p \in [1..n -> PriceLevels]} : n \in 0..MaxPrices}

\* pd.to_datetime(Year + '-' + Month, format='%Y-%b')
ToDatetime(year, abbr) ==
    Date(year, CHOOSE m \in 1..12 : MonthAbbr[m] = abbr, 1)

\* the body of load_historical_data
ReadHistorical(file) ==
    AddColumn(file, "Date", [i \in 1..Len(file) |-> ToDatetime(file[i].Year, file[i].Month)])

\* Rows of state_wise_silver_purchased_kg.csv for a run of the whole script:
\* the file is a leading part of this list, of at most MaxStates rows.
CsvStateRows == <<
    StateRow(0, "Bihar", 9500),
    StateRow(1, "Karnataka", 16800),
    StateRow(2, "Maharashtra", 22000),
    StateRow(3, "Rajasthan", 19800),
    StateRow(4, "Uttar Pradesh", 18500),
    StateRow(5, "Assam", 4200),
    StateRow(6, "Chandigarh", 900) >>

StateCsvs == {SubSeq(CsvStateRows, 1, n) :
                 n \in 0..Min2(MaxStates, Len(CsvStateRows))}

\* what urlopen and json.load do on one attempt
FetchOutcomes == {"ok", "network_error", "malformed_json"}

NoneVal == "None"
GeoJson == "geojson"
Unset == "unset"

\* a loader that lets the exception of a failed fetch out
GeojsonResultRaising(outcome) ==
    [raised |-> outcome # "ok",
     value |-> IF outcome = "ok" THEN "geojson" ELSE "None"]

\* the try / except of load_india_geojson on one outcome of the fetch
GeojsonResult(outcome) ==
    [raised |-> FALSE, value |-> IF outcome = "ok" THEN GeoJson ELSE NoneVal]

\* the body of load_state_sales_data
ReadStateSales(file) == file

(***************************************************************************)
(* State tables handed to one aggregation.                                 *)
(***************************************************************************)
\* three mapped states of two regions, one more mapped state, one state
\* that no region lists
AggNames == <<"Goa", "Karnataka", "Maharashtra", "Rajasthan", "Chandigarh">>

AggQty == {5, 10, 20}

\* the tables of at most MaxRows rows: a selection of AggNames in the
\* order of the list, any quantities
AggTables ==
    UNION {LET order == SortedKeys(S)
           IN  {[i \in 1..Len(order) |-> StateRow(i - 1, AggNames[order[i]], q[i])] :
                   q \in [1..Len(order) -> AggQty]} :
           S \in {T \in SUBSET (1..Len(AggNames)) : Cardinality(T) <= MaxRows}}

\* every state the region map lists, region by region
MappedStates ==
    regions[1].states_list \o regions[2].states_list \o regions[3].states_list
    \o regions[4].states_list \o regions[5].states_list \o regions[6].states_list

\* quantities of the tables whose shares are summed: all different, and 13
\* of them have shares that all round down
ShareQty(i) == 5 + 13 * (IF i <= 12 THEN i ELSE i + 4)

ShareTables ==
    {LET order == SortedKeys(S)
     IN  [i \in 1..Len(order) |->
             StateRow(i - 1, MappedStates[order[i]], ShareQty(order[i]))] :
     S \in (SUBSET (1..MaxShareRows)) \ {{}}}

(***************************************************************************)
(* State.                                                                  *)
(***************************************************************************)
VARIABLES
    pc,                  \* the statement the script is at
    error,               \* the place of the uncaught exception, if any
    csv,                 \* the two input files
    cache,               \* st.cache_data: loader -> cached return value
    rng,                 \* the process-wide generator of the random module
    other_draws,         \* samples other callers have drawn from it
    clears,              \* times the user has cleared the cache
    fetches,             \* urlopen calls of this run of the script
    last_fetch,          \* the outcome of this run's urlopen call
    jan_outputs,         \* every frame load_india_january_data's body returned
    jan_runs,            \* times that body ran
    historical_data, state_sales, india_january, india_geojson,
    latest_price_per_kg,
    price_filter, filtered_data, price_stats,
    map_view, sorted_sales, state_sales_display, summary_stats,
    top_5_states, top_5_display, key_insights,
    january_stats, weekly_data, state_jan_breakdown,
    regional_data, regional_df,
    top_n                \* the result of one top_n(rows, n)

envVars == <<csv, cache, rng, other_draws, clears, fetches, last_fetch,
             jan_outputs, jan_runs>>
loadVars == <<historical_data, state_sales, india_january, india_geojson,
              latest_price_per_kg>>
tab1Vars == <<price_filter, filtered_data, price_stats>>
tab2Vars == <<map_view, sorted_sales, state_sales_display, summary_stats>>
top5Vars == <<top_5_states, top_5_display, key_insights>>
tab3Vars == <<january_stats, weekly_data, state_jan_breakdown,
              regional_data, regional_df>>
vars == <<pc, error, envVars, loadVars, tab1Vars, tab2Vars, top5Vars, tab3Vars,
          top_n>>

Blank == [kind |-> "unset", v |-> 0]

Miss == [hit |-> FALSE, val |-> <<>>]
Hit(v) == [hit |-> TRUE, val |-> v]
EmptyCache == [historical |-> Miss, state |-> Miss, january |-> Miss,
               geojson |-> Miss, breakdown |-> Miss]

BlankPriceStats == [highest |-> Blank, lowest |-> Blank, average |-> Blank,
                    change |-> Blank]
BlankSummary == [total |-> Blank, mean |-> Blank, count |-> Blank,
                 highest |-> Blank]
BlankInsights == [leader |-> 0, fifth |-> 0, combined |-> 0]
BlankJanuary == [max_day |-> 0, min_day |-> 0, average |-> 0, total |-> 0]
BlankTopN == [n |-> 0, rows |-> <<>>]

\* the script's globals before its first statement
ScriptStart ==
    /\ pc = "historical_data"
    /\ error = "none"
    /\ fetches = 0
    /\ historical_data = <<>> /\ state_sales = <<>> /\ india_january = <<>>
    /\ india_geojson = Unset
    /\ latest_price_per_kg = 0
    /\ price_filter = Unset /\ filtered_data = <<>>
    /\ price_stats = BlankPriceStats
    /\ map_view = Unset /\ sorted_sales = <<>> /\ state_sales_display = <<>>
    /\ summary_stats = BlankSummary
    /\ top_5_states = <<>> /\ top_5_display = <<>>
    /\ key_insights = BlankInsights
    /\ january_stats = BlankJanuary
    /\ weekly_data = <<>> /\ state_jan_breakdown = <<>>
    /\ regional_data = <<>> /\ regional_df = <<>>
    /\ top_n = BlankTopN

Init ==
    /\ csv \in [historical : HistCsvs, state : StateCsvs]
    /\ cache = EmptyCache
    /\ rng \in [seed : OsSeeds, pos : {0}]
    /\ other_draws = 0 /\ clears = 0
    /\ last_fetch = "none"
    /\ jan_outputs = {} /\ jan_runs = 0
    /\ ScriptStart

\* an uncaught exception ends the run
Crash(site) == pc' = "crashed" /\ error' = site

(***************************************************************************)
(* Lines 115-123: the loaders and the latest price.                        *)
(***************************************************************************)
\* historical_data = load_historical_data()
LoadHistoricalData ==
    /\ pc = "historical_data"
    /\ IF cache.historical.hit
       THEN /\ historical_data' = cache.historical.val
            /\ cache' = cache
       ELSE /\ historical_data' = ReadHistorical(csv.historical)
            /\ cache' = [cache EXCEPT !.historical = Hit(ReadHistorical(csv.historical))]
    /\ pc' = "state_sales"
    /\ UNCHANGED <<error, csv, rng, other_draws, clears, fetches, last_fetch,
                   jan_outputs, jan_runs, state_sales, india_january,
                   india_geojson, latest_price_per_kg,
                   tab1Vars, tab2Vars, top5Vars, tab3Vars, top_n>>

\* state_sales = load_state_sales_data()
LoadStateSalesData ==
    /\ pc = "state_sales"
    /\ IF cache.state.hit
       THEN /\ state_sales' = cache.state.val
            /\ cache' = cache
       ELSE /\ state_sales' = ReadStateSales(csv.state)
            /\ cache' = [cache EXCEPT !.state = Hit(ReadStateSales(csv.state))]
    /\ pc' = "india_january"
    /\ UNCHANGED <<error, csv, rng, other_draws, clears, fetches, last_fetch,
                   jan_outputs, jan_runs, historical_data, india_january,
                   india_geojson, latest_price_per_kg,
                   tab1Vars, tab2Vars, top5Vars, tab3Vars, top_n>>

\* india_january = load_india_january_data()
LoadIndiaJanuaryData ==
    /\ pc = "india_january"
    /\ IF cache.january.hit
       THEN /\ india_january' = cache.january.val
            /\ UNCHANGED <<cache, rng, jan_outputs, jan_runs>>
       ELSE LET gen == GenerateIndiaJanuary(rng)
            IN  /\ india_january' = gen.df
                /\ rng' = gen.rng
                /\ cache' = [cache EXCEPT !.january = Hit(gen.df)]
                /\ jan_outputs' = jan_outputs \cup {gen.df}
                /\ jan_runs' = jan_runs + 1
    /\ pc' = "india_geojson"
    /\ UNCHANGED <<error, csv, other_draws, clears, fetches, last_fetch,
                   historical_data, state_sales, india_geojson,
                   latest_price_per_kg,
                   tab1Vars, tab2Vars, top5Vars, tab3Vars, top_n>>

\* india_geojson = load_india_geojson()
LoadIndiaGeojson ==
    /\ pc = "india_geojson"
    /\ IF cache.geojson.hit
       THEN /\ india_geojson' = cache.geojson.val
            /\ pc' = "latest_price"
            /\ UNCHANGED <<cache, fetches, last_fetch, error>>
       ELSE \E outcome \in FetchOutcomes :
              LET res == GeojsonResult(outcome)
              IN  /\ fetches' = fetches + 1
                  /\ last_fetch' = outcome
                  /\ IF res.raised
                     THEN /\ Crash("load_india_geojson")
                          /\ UNCHANGED <<india_geojson, cache>>
                     ELSE /\ india_geojson' = res.value
                          /\ cache' = [cache EXCEPT !.geojson = Hit(res.value)]
                          /\ pc' = "latest_price"
                          /\ error' = error
    /\ UNCHANGED <<csv, rng, other_draws, clears, jan_outputs, jan_runs,
                   historical_data, state_sales, india_january,
                   latest_price_per_kg,
                   tab1Vars, tab2Vars, top5Vars, tab3Vars, top_n>>

\* latest_price_per_kg = historical_data.iloc[-1][...]: IndexError on an
\* empty table
LatestPrice ==
    /\ pc = "latest_price"
    /\ IF historical_data = <<>>
       THEN /\ Crash("latest_price")
            /\ UNCHANGED latest_price_per_kg
       ELSE /\ latest_price_per_kg' =
                   historical_data[Len(historical_data)].Silver_Price_INR_per_kg
            /\ pc' = "tab1"
            /\ error' = error
    /\ UNCHANGED <<envVars, historical_data, state_sales, india_january,
                   india_geojson, tab1Vars, tab2Vars, top5Vars, tab3Vars, top_n>>

(***************************************************************************)
(* Tab 1, lines 208-261: the price filter and the price statistics.  The   *)
(* calculator above them (lines 131-206) only displays what it computes.   *)
(***************************************************************************)
Tab1PriceTrends ==
    /\ pc = "tab1"
    /\ \E f \in PriceFilters :
         LET fd == ApplyPriceFilter(historical_data, f)
         IN  /\ price_filter' = f
             /\ filtered_data' = fd
             /\ \E change \in ChangeMetrics(fd) :
                  price_stats' =
                      [highest |-> MaxMetric(fd, "Silver_Price_INR_per_kg"),
                       lowest |-> MinMetric(fd, "Silver_Price_INR_per_kg"),
                       average |-> MeanMetric(fd, "Silver_Price_INR_per_kg"),
                       change |-> change]
    /\ pc' = "tab2"
    /\ UNCHANGED <<error, envVars, loadVars, tab2Vars, top5Vars, tab3Vars, top_n>>

(***************************************************************************)
(* Tab 2, lines 266-355: the map or its replacement, the bar chart, the    *)
(* ranked table and the summary statistics.                                *)
(***************************************************************************)
\* the try / if / else / except of lines 272-307
MapViews(geojson) ==
    IF geojson = GeoJson
    THEN {"choropleth",          \* the map is drawn
          "in_progress"}         \* drawing raised, caught at line 305
    ELSE {"loading"}             \* the else branch: no map

Tab2SalesDashboard ==
    /\ pc = "tab2"
    /\ map_view' \in MapViews(india_geojson)
    /\ sorted_sales' \in SortValues(state_sales, "Silver_Purchased_kg", TRUE)
    /\ state_sales_display' \in
           {ResetIndex(d) : d \in SortValues(state_sales, "Silver_Purchased_kg", FALSE)}
    /\ summary_stats' =
           [total |-> Num(SumColumn(state_sales, "Silver_Purchased_kg")),
            mean |-> MeanMetric(state_sales, "Silver_Purchased_kg"),
            count |-> Num(Len(state_sales)),
            highest |-> MaxMetric(state_sales, "Silver_Purchased_kg")]
    /\ pc' = "tab3_top5"
    /\ UNCHANGED <<error, envVars, loadVars, tab1Vars, top5Vars, tab3Vars, top_n>>

(***************************************************************************)
(* Tab 3, lines 360-620.                                                   *)
(***************************************************************************)
\* Lines 363-403.  The Key Insights text reads rows 0 and 4 of the top five:
\* IndexError when the table has fewer than five rows.
Tab3Top5 ==
    /\ pc = "tab3_top5"
    /\ LET top == nlargest(state_sales, 5, "Silver_Purchased_kg")
       IN  /\ top_5_states' = top
           /\ top_5_display' \in {ResetIndex(d) : d \in Top5Display(top, state_sales)}
           /\ IF Len(top) < 5
              THEN /\ Crash("key_insights")
                   /\ UNCHANGED key_insights
              ELSE /\ key_insights' =
                          [leader |-> top[1].Silver_Purchased_kg,
                           fifth |-> top[5].Silver_Purchased_kg,
                           combined |-> SumColumn(top, "Silver_Purchased_kg")]
                   /\ pc' = "tab3_daily"
                   /\ error' = error
    /\ UNCHANGED <<envVars, loadVars, tab1Vars, tab2Vars, tab3Vars, top_n>>

\* Lines 410-492: the daily chart and the January statistics (whole kg).
Tab3Daily ==
    /\ pc = "tab3_daily"
    /\ LET total == SumColumn(india_january, "Purchase_KG")
       IN  \E avg \in RoundChoices(total, 10 * Len(india_january)),
              tot \in RoundChoices(total, 10) :
             january_stats' =
                 [max_day |-> india_january[IdxMax(india_january, "Purchase_KG")].Day,
                  min_day |-> india_january[IdxMin(india_january, "Purchase_KG")].Day,
                  average |-> avg,
                  total |-> tot]
    /\ pc' = "tab3_weekly"
    /\ UNCHANGED <<error, envVars, loadVars, tab1Vars, tab2Vars, top5Vars,
                   weekly_data, state_jan_breakdown, regional_data, regional_df,
                   top_n>>

\* Lines 494-525.  Assigning fewer labels than weekly_data has rows raises
\* ValueError.
Tab3Weekly ==
    /\ pc = "tab3_weekly"
    /\ LET withWeek == WithWeek(india_january)
           weekly == GroupByWeek(withWeek)
       IN  /\ india_january' = withWeek
           /\ IF Len(weekly) > Len(week_labels)
              THEN /\ weekly_data' = weekly
                   /\ Crash("week_labels")
              ELSE /\ weekly_data' =
                          AddColumn(weekly, "Week Label",
                                    SubSeq(week_labels, 1, Len(weekly)))
                   /\ pc' = "tab3_state_jan"
                   /\ error' = error
    /\ UNCHANGED <<envVars, historical_data, state_sales, india_geojson,
                   latest_price_per_kg, tab1Vars, tab2Vars, top5Vars,
                   january_stats, state_jan_breakdown, regional_data,
                   regional_df, top_n>>

\* Lines 527-585: state_jan_breakdown = load_state_wise_january_breakdown(),
\* which reads the state table through load_state_sales_data().
Tab3StateJanuary ==
    /\ pc = "tab3_state_jan"
    /\ IF cache.breakdown.hit
       THEN /\ state_jan_breakdown' = cache.breakdown.val
            /\ cache' = cache
       ELSE LET state_sales_df == IF cache.state.hit THEN cache.state.val
                                  ELSE ReadStateSales(csv.state)
            IN  \E b \in StateWiseJanuaryBreakdown(state_sales_df) :
                  /\ state_jan_breakdown' = b
                  /\ cache' = [cache EXCEPT !.breakdown = Hit(b),
                                            !.state = Hit(state_sales_df)]
    /\ pc' = "tab3_regional"
    /\ UNCHANGED <<error, csv, rng, other_draws, clears, fetches, last_fetch,
                   jan_outputs, jan_runs, loadVars, tab1Vars, tab2Vars, top5Vars,
                   january_stats, weekly_data, regional_data, regional_df, top_n>>

\* Lines 587-629: the regional rollup and the footer.
Tab3Regional ==
    /\ pc = "tab3_regional"
    /\ regional_data' = RegionalData(state_sales)
    /\ regional_df' \in SortValues(RegionalData(state_sales), "Total_Purchase_kg", FALSE)
    /\ pc' = "done"
    /\ UNCHANGED <<error, envVars, loadVars, tab1Vars, tab2Vars, top5Vars,
                   january_stats, weekly_data, state_jan_breakdown, top_n>>

(***************************************************************************)
(* The environment of the script.                                          *)
(***************************************************************************)
Ended == pc \in {"done", "crashed"}

\* a user interaction: Streamlit runs the script again from its first line
Rerun ==
    /\ Ended
    /\ pc' = "historical_data"
    /\ error' = "none"
    /\ fetches' = 0
    /\ historical_data' = <<>> /\ state_sales' = <<>> /\ india_january' = <<>>
    /\ india_geojson' = Unset
    /\ latest_price_per_kg' = 0
    /\ price_filter' = Unset /\ filtered_data' = <<>>
    /\ price_stats' = BlankPriceStats
    /\ map_view' = Unset /\ sorted_sales' = <<>> /\ state_sales_display' = <<>>
    /\ summary_stats' = BlankSummary
    /\ top_5_states' = <<>> /\ top_5_display' = <<>>
    /\ key_insights' = BlankInsights
    /\ january_stats' = BlankJanuary
    /\ weekly_data' = <<>> /\ state_jan_breakdown' = <<>>
    /\ regional_data' = <<>> /\ regional_df' = <<>>
    /\ top_n' = BlankTopN
    /\ last_fetch' = "none"
    /\ UNCHANGED <<csv, cache, rng, other_draws, clears, jan_outputs, jan_runs>>

\* the script is between two runs: nothing of this run has executed yet
Idle == pc = "historical_data"

\* the user clears st.cache_data
ClearCache ==
    /\ Idle
    /\ clears < MaxClears
    /\ cache # EmptyCache
    /\ cache' = EmptyCache
    /\ clears' = clears + 1
    /\ UNCHANGED <<pc, error, csv, rng, other_draws, fetches, last_fetch,
                   jan_outputs, jan_runs, loadVars, tab1Vars, tab2Vars,
                   top5Vars, tab3Vars, top_n>>

\* another user of the random module draws a sample between two runs
OtherDraw ==
    /\ Idle
    /\ other_draws < MaxOtherDraws
    /\ rng' = Advance(rng)
    /\ other_draws' = other_draws + 1
    /\ UNCHANGED <<pc, error, csv, cache, clears, fetches, last_fetch,
                   jan_outputs, jan_runs, loadVars, tab1Vars, tab2Vars,
                   top5Vars, tab3Vars, top_n>>

\* One session: the script runs, and runs again on every interaction, with
\* the cache it has filled.
Next ==
    \/ LoadHistoricalData
    \/ LoadStateSalesData
    \/ LoadIndiaJanuaryData
    \/ LoadIndiaGeojson
    \/ LatestPrice
    \/ Tab1PriceTrends
    \/ Tab2SalesDashboard
    \/ Tab3Top5
    \/ Tab3Daily
    \/ Tab3Weekly
    \/ Tab3StateJanuary
    \/ Tab3Regional
    \/ Rerun

Spec == Init /\ [][Next]_vars

\* A long-lived process: between runs the cache may be cleared and other
\* code of the process may draw from the random module.  The two input
\* files are one sample each.
InitLong ==
    /\ csv = [historical |-> HistCsv(<<20000, 35000>>),
              state |-> SubSeq(CsvStateRows, 1, 5)]
    /\ cache = EmptyCache
    /\ rng \in [seed : OsSeeds, pos : {0}]
    /\ other_draws = 0 /\ clears = 0
    /\ last_fetch = "none"
    /\ jan_outputs = {} /\ jan_runs = 0
    /\ ScriptStart

NextLong ==
    \/ LoadHistoricalData
    \/ LoadStateSalesData
    \/ LoadIndiaJanuaryData
    \/ LoadIndiaGeojson
    \/ LatestPrice
    \/ Tab1PriceTrends
    \/ Tab2SalesDashboard
    \/ Tab3Top5
    \/ Tab3Daily
    \/ Tab3Weekly
    \/ Tab3StateJanuary
    \/ Tab3Regional
    \/ Rerun
    \/ ClearCache
    \/ OtherDraw

SpecLong == InitLong /\ [][NextLong]_vars

(***************************************************************************)
(* The aggregations applied to a state table on their own.                 *)
(***************************************************************************)
FnStart(table) ==
    /\ csv = [historical |-> <<>>, state |-> table]
    /\ cache = EmptyCache
    /\ rng \in [seed : OsSeeds, pos : {0}]
    /\ other_draws = 0 /\ clears = 0 /\ fetches = 0
    /\ last_fetch = "none"
    /\ jan_outputs = {} /\ jan_runs = 0
    /\ error = "none"
    /\ historical_data = <<>> /\ india_january = <<>>
    /\ india_geojson = Unset
    /\ latest_price_per_kg = 0
    /\ price_filter = Unset /\ filtered_data = <<>>
    /\ price_stats = BlankPriceStats
    /\ map_view = Unset /\ sorted_sales = <<>> /\ state_sales_display = <<>>
    /\ summary_stats = BlankSummary
    /\ top_5_states = <<>> /\ top_5_display = <<>>
    /\ key_insights = BlankInsights
    /\ january_stats = BlankJanuary
    /\ weekly_data = <<>> /\ state_jan_breakdown = <<>>
    /\ regional_data = <<>> /\ regional_df = <<>>
    /\ top_n = BlankTopN
    /\ state_sales = ReadStateSales(table)
    /\ pc = "fn"

\* state_sales.nlargest(n, 'Silver_Purchased_kg') for an n of the caller
ApplyTopN ==
    /\ pc = "fn"
    /\ \E n \in 0..MaxN :
         top_n' = [n |-> n, rows |-> nlargest(state_sales, n, "Silver_Purchased_kg")]
    /\ pc' = "fn_top_n"
    /\ UNCHANGED <<error, envVars, loadVars, tab1Vars, tab2Vars, top5Vars, tab3Vars>>

\* the loop of lines 603-608 on its own
ApplyRollup ==
    /\ pc = "fn"
    /\ regional_data' = RegionalData(state_sales)
    /\ regional_df' \in SortValues(RegionalData(state_sales), "Total_Purchase_kg", FALSE)
    /\ pc' = "fn_rollup"
    /\ UNCHANGED <<error, envVars, loadVars, tab1Vars, tab2Vars, top5Vars,
                   january_stats, weekly_data, state_jan_breakdown, top_n>>

\* the body of load_state_wise_january_breakdown on its own
ApplyShare ==
    /\ pc = "fn"
    /\ state_jan_breakdown' \in StateWiseJanuaryBreakdown(state_sales)
    /\ pc' = "fn_share"
    /\ UNCHANGED <<error, envVars, loadVars, tab1Vars, tab2Vars, top5Vars,
                   january_stats, weekly_data, regional_data, regional_df, top_n>>

InitAgg == \E table \in AggTables : FnStart(table)

NextAgg == ApplyTopN \/ ApplyRollup \/ ApplyShare

SpecAgg == InitAgg /\ [][NextAgg]_vars

InitShare == \E table \in ShareTables : FnStart(table)

NextShare == ApplyShare

SpecShare == InitShare /\ [][NextShare]_vars

(***************************************************************************)
(* The daily rule under arbitrary samples: what lines 50-76 yield when the *)
(* uniform calls return any values of their ranges, next to what they      *)
(* yield with the samples of seed 42.                                      *)
(***************************************************************************)
\* samples of random(), in millionths: 0 <= random() < 1
DrawLevels == {(999999 * k) \div MaxLevel : k \in 0..MaxLevel}

\* The samples of the 30 iterations: those of 26 January and of one other
\* day are chosen on their own, all other days share one sample.  `boost`
\* is the sample of the day's window call, `noise` that of the last call.
DrawsFor(bg, d, ub, un, ub26, un26) ==
    [i \in 1..30 |->
        IF i = 26 THEN [boost |-> ub26, noise |-> un26]
        ELSE IF i = d THEN [boost |-> ub, noise |-> un]
        ELSE [boost |-> bg, noise |-> bg]]

\* the frame of lines 78-85 for given samples
DailySeries(draws) ==
    LET dates == DateRange(StartDate, EndDate)
    IN  [i \in 1..Len(dates) |->
            [Date |-> dates[i],
             Day |-> dates[i].day,
             DayOfWeek |-> DayName(dates[i]),
             Purchase_KG |-> DailyQuantity(Stamp(dates[i]), draws[i].boost,
                                           draws[i].boost, draws[i].boost,
                                           draws[i].noise)]]

\* india_january.loc[india_january['Purchase_KG'].idxmax()]['Day']
HighestDay(df) == df[IdxMax(df, "Purchase_KG")].Day

\* the loop of lines 50-76 with samples of the caller's choice
ApplyDistributeDaily ==
    /\ pc = "fn"
    /\ \E d \in (1..30) \ {26} :
         \E bg, ub, un, ub26, un26 \in DrawLevels :
            india_january' = DailySeries(DrawsFor(bg, d, ub, un, ub26, un26))
    /\ pc' = "fn_daily"
    /\ UNCHANGED <<error, envVars, historical_data, state_sales, india_geojson,
                   latest_price_per_kg, tab1Vars, tab2Vars, top5Vars, tab3Vars,
                   top_n>>

\* the body of load_india_january_data as it is, seeded with 42
ApplySeededDaily ==
    /\ pc = "fn"
    /\ LET gen == GenerateIndiaJanuary(rng)
       IN  /\ india_january' = gen.df
           /\ rng' = gen.rng
           /\ jan_outputs' = jan_outputs \cup {gen.df}
           /\ jan_runs' = jan_runs + 1
    /\ pc' = "fn_daily"
    /\ UNCHANGED <<error, csv, cache, other_draws, clears, fetches, last_fetch,
                   historical_data, state_sales, india_geojson,
                   latest_price_per_kg, tab1Vars, tab2Vars, top5Vars, tab3Vars,
                   top_n>>

\* max_day of line 454, highest_day of line 575
ApplyHighestDay ==
    /\ pc = "fn_daily"
    /\ january_stats' =
           [BlankJanuary EXCEPT !.max_day = HighestDay(india_january),
                                !.min_day = india_january[IdxMin(india_january, "Purchase_KG")].Day]
    /\ pc' = "fn_max_day"
    /\ UNCHANGED <<error, envVars, loadVars, tab1Vars, tab2Vars, top5Vars,
                   weekly_data, state_jan_breakdown, regional_data, regional_df,
                   top_n>>

InitDraws == FnStart(<<>>)

NextDraws == ApplyDistributeDaily \/ ApplySeededDaily \/ ApplyHighestDay

SpecDraws == InitDraws /\ [][NextDraws]_vars

(***************************************************************************)
(* Properties.                                                             *)
(***************************************************************************)
\* the run is past the four loader calls of lines 116-119
LoadersDone == pc \notin {"historical_data", "state_sales", "india_january",
                          "india_geojson"}

\* the run is past india_january = load_india_january_data()
JanuaryLoaded == pc \notin {"historical_data", "state_sales", "india_january"}

\* C1: the daily series for 2026-01-01..2026-01-30 has exactly 30 entries,
\* the i-th being day i of January 2026, so one entry per day of the window
\* in strictly ascending calendar order and none for 31 January.
C1_DailySeriesCoversWindow ==
    JanuaryLoaded =>
        /\ Len(india_january) = 30
        /\ \A i \in 1..Len(india_january) :
              /\ india_january[i].Date = Date(2026, 1, i)
              /\ india_january[i].Day = i
              /\ india_january[i].Date # Date(2026, 1, 31)
        /\ \A i \in 1..(Len(india_january) - 1) :
              Ordinal(india_january[i + 1].Date) = Ordinal(india_january[i].Date) + 1

C1_Witness ==
    /\ pc = "india_geojson"
    /\ jan_runs = 1
    /\ Len(india_january) = 30
    /\ india_january[30].Date = EndDate

\* the sum of the Percentage column of a frame, in hundredths of a percent
PercentageSum(df) == SumColumn(df, "Percentage")

\* C2 as stated: for a table of at most 100 rows with a non-zero total the
\* rounded shares sum to 100.00 within 0.05.
C2_SharesWithinFiveHundredths ==
    (/\ pc = "fn_share"
     /\ Len(state_sales) <= 100
     /\ SumColumn(state_sales, "Silver_Purchased_kg") # 0)
    => Abs(PercentageSum(state_jan_breakdown) - 10000) <= 5

\* C2, amended: every row has its share, each share is a nearest hundredth
\* of value / total * 100, and the shares sum to 100.00 within 0.005 per row;
\* that is within 0.05 for tables of at most 10 rows.
C2_SharesWithinHalfHundredthPerRow ==
    (/\ pc = "fn_share"
     /\ SumColumn(state_sales, "Silver_Purchased_kg") # 0)
    => LET n == Len(state_jan_breakdown)
           total == SumColumn(state_sales, "Silver_Purchased_kg")
           off == Abs(PercentageSum(state_jan_breakdown) - 10000)
       IN  /\ n = Len(state_sales)
           /\ \A i \in 1..n :
                 Abs(state_jan_breakdown[i].Percentage * total
                     - state_jan_breakdown[i].Silver_Purchased_kg * 10000) * 2 <= total
           /\ 2 * off <= n
           /\ n <= 10 => off <= 5

C2_Witness ==
    /\ pc = "fn_share"
    /\ Len(state_jan_breakdown) = 13
    /\ Abs(PercentageSum(state_jan_breakdown) - 10000) = 6

\* the rows of the state table whose state some region lists
MappedRows(sales) ==
    SelectSeq(sales, LAMBDA r : \E k \in 1..Len(regions) :
                                   IsIn(r.State, regions[k].states_list))

\* C3: the rollup yields a total for each of the six regions; the totals sum
\* to the quantities of exactly the rows whose state is in the region map;
\* a region's total is the sum over the rows of its own states; and no state
\* is listed by two regions, so a mapped row is counted once and an unmapped
\* row not at all.
C3_RegionTotalsCoverMappedStates ==
    pc = "fn_rollup" =>
        /\ Len(regional_data) = 6
        /\ \A k \in 1..6 : regional_data[k].Region = regions[k].Region
        /\ SumColumn(regional_data, "Total_Purchase_kg")
               = SumColumn(MappedRows(state_sales), "Silver_Purchased_kg")
        /\ \A k \in 1..6 :
              regional_data[k].Total_Purchase_kg =
                  SumSeq([i \in 1..Len(state_sales) |->
                      IF IsIn(state_sales[i].State, regions[k].states_list)
                      THEN state_sales[i].Silver_Purchased_kg ELSE 0])
        /\ \A j, k \in 1..6 : j # k =>
              \A a \in 1..Len(regions[j].states_list) :
                 ~IsIn(regions[j].states_list[a], regions[k].states_list)
        /\ Len(regional_df) = 6
        /\ \A k \in 1..5 :
              regional_df[k].Total_Purchase_kg >= regional_df[k + 1].Total_Purchase_kg

\* a table with a mapped and an unmapped state, two states of one region
C3_Witness ==
    /\ pc = "fn_rollup"
    /\ \E i, j, u \in 1..Len(state_sales) :
          /\ state_sales[i].State = "Goa"
          /\ state_sales[j].State = "Maharashtra"
          /\ state_sales[u].State = "Chandigarh"
    /\ SumColumn(regional_data, "Total_Purchase_kg")
           < SumColumn(state_sales, "Silver_Purchased_kg")

\* C4: the weekly rollup has one row per ISO week of the daily series, in
\* ascending week order; a row's day count and total are those of the days
\* of its week; the day counts sum to the 30 days of the series; the partial
\* weeks at both ends of the window are kept with their true counts, 4 and 5.
WeeklyDone == pc \in {"tab3_state_jan", "tab3_regional", "done"}
              \/ (pc = "crashed" /\ error = "week_labels")

DaysOfWeek(w) == {i \in 1..Len(india_january) : IsoWeek(india_january[i].Date) = w}

C4_WeeklyRollupKeepsEveryDay ==
    WeeklyDone =>
        /\ \A i \in 1..Len(india_january) :
              \E k \in 1..Len(weekly_data) :
                 weekly_data[k].Week = IsoWeek(india_january[i].Date)
        /\ \A k \in 1..Len(weekly_data) :
              /\ weekly_data[k].Days = Cardinality(DaysOfWeek(weekly_data[k].Week))
              /\ weekly_data[k].Days >= 1
              /\ weekly_data[k].Total =
                     SumSeq([i \in 1..Len(india_january) |->
                         IF i \in DaysOfWeek(weekly_data[k].Week)
                         THEN india_january[i].Purchase_KG ELSE 0])
        /\ \A k \in 1..(Len(weekly_data) - 1) :
              weekly_data[k].Week < weekly_data[k + 1].Week
        /\ SumColumn(weekly_data, "Days") = Len(india_january)
        /\ SumColumn(weekly_data, "Days") = 30
        /\ Column(weekly_data, "Week") = <<1, 2, 3, 4, 5>>
        /\ weekly_data[1].Days = 4
        /\ weekly_data[Len(weekly_data)].Days = 5

C4_Witness ==
    /\ pc = "tab3_state_jan"
    /\ Len(weekly_data) = 5
    /\ weekly_data[1].Days < 7
    /\ weekly_data[5].Days < 7
    /\ weekly_data[3].Days = 7

\* row a comes before row b in the order of top_n: larger quantity first,
\* equal quantities in input order
Before(a, b) ==
    \/ a.Silver_Purchased_kg > b.Silver_Purchased_kg
    \/ /\ a.Silver_Purchased_kg = b.Silver_Purchased_kg
       /\ a.index < b.index

\* C5: top_n(rows, n) returns min(n, row count) rows of the input, each
\* once; they are in descending order of quantity, equal quantities in input
\* order; every row left out comes after every row returned; so n >= row
\* count returns all rows and n = 0 returns none.
C5_TopNLargestInStableOrder ==
    pc = "fn_top_n" =>
        LET n == top_n.n
            rows == top_n.rows
            m == Len(state_sales)
        IN  /\ Len(rows) = Min2(n, m)
            /\ \A i \in 1..Len(rows) :
                  /\ rows[i].index \in 0..(m - 1)
                  /\ state_sales[rows[i].index + 1] = rows[i]
            /\ \A i, j \in 1..Len(rows) : i < j => Before(rows[i], rows[j])
            /\ \A r \in 1..m :
                  (\A i \in 1..Len(rows) : rows[i] # state_sales[r])
                  => \A i \in 1..Len(rows) : Before(rows[i], state_sales[r])
            /\ n >= m => Len(rows) = m
            /\ n = 0 => rows = <<>>

\* fewer rows asked for than there are, with a tie across the cut
C5_Witness ==
    /\ pc = "fn_top_n"
    /\ top_n.n = 2
    /\ Len(state_sales) = 4
    /\ Len(top_n.rows) = 2
    /\ top_n.rows[2].Silver_Purchased_kg = state_sales[4].Silver_Purchased_kg
    /\ top_n.rows[2].index < 3

FetchFailed == last_fetch \in {"network_error", "malformed_json"}

\* C6: a run calls urlopen at most once; when the call fails the loader
\* raises nothing and yields None, which is what the cache keeps; with None
\* the map is skipped and the run goes on; it ends in an exception only
\* where it does after a successful fetch too (an empty
\* price table at line 122, fewer than five states at lines 396-403); at its
\* end the bar chart, the table, the summary statistics and the sections of
\* the third tab are there.
C6_FetchFailureIsNotFatal ==
    /\ fetches <= 1
    /\ FetchFailed =>
          /\ fetches = 1
          /\ error # "load_india_geojson"
          /\ india_geojson = NoneVal
          /\ cache.geojson = Hit(NoneVal)
    /\ (LoadersDone /\ india_geojson = NoneVal) =>
          /\ map_view \in {Unset, "loading"}
          /\ pc \notin {"tab1", "tab2", "latest_price"} => map_view = "loading"
             \/ (pc = "crashed" /\ error = "latest_price")
          /\ pc = "crashed" =>
                \/ error = "latest_price" /\ historical_data = <<>>
                \/ error = "key_insights" /\ Len(state_sales) < 5
          /\ pc = "done" =>
                /\ Len(sorted_sales) = Len(state_sales)
                /\ Len(state_sales_display) = Len(state_sales)
                /\ summary_stats.count = Num(Len(state_sales))
                /\ Len(top_5_states) = 5
                /\ Len(weekly_data) = 5
                /\ Len(state_jan_breakdown) = Len(state_sales)
                /\ Len(regional_df) = 6

C6_Witness ==
    /\ pc = "done"
    /\ last_fetch = "malformed_json"
    /\ india_geojson = NoneVal
    /\ map_view = "loading"
    /\ Len(regional_df) = 6

\* the run is past the price statistics of lines 246-261
PriceStatsShown == price_filter # Unset

\* C7 as stated: when the price filter matches no row, the highest, lowest
\* and average price are reported as not applicable, as the change is.
C7_EmptyFilterReportsNotApplicable ==
    (PriceStatsShown /\ filtered_data = <<>>) =>
        /\ price_stats.change = NA
        /\ price_stats.highest = NA
        /\ price_stats.lowest = NA
        /\ price_stats.average = NA

\* C8 as stated: the call of load_india_january_data leaves the process-wide
\* generator in the state it found it in.
C8_GlobalGeneratorUntouched ==
    [][pc = "india_january" => rng' = rng]_vars

\* the (date, quantity) sequence of a frame of the daily series
DateQuantity(df) == [i \in 1..Len(df) |-> <<df[i].Date, df[i].Purchase_KG>>]

\* C9: every execution of the body of load_india_january_data returns the
\* same sequence of (date, quantity), whatever was drawn from the generator
\* before it, and leaves the generator seeded with 42; the frame a run works
\* with is that sequence.
C9_DailySeriesIsDeterministic ==
    /\ \A a, b \in jan_outputs : DateQuantity(a) = DateQuantity(b)
    /\ jan_runs > 0 => rng.seed = SEED
    /\ JanuaryLoaded =>
          /\ jan_outputs # {}
          /\ \A a \in jan_outputs : DateQuantity(india_january) = DateQuantity(a)

\* the body has run a second time, after the cache was cleared and another
\* caller drew from the generator
C9_Witness ==
    /\ jan_runs = 2
    /\ clears = 1
    /\ other_draws = 1
    /\ rng = [seed |-> SEED, pos |-> 46]
    /\ pc = "india_geojson"

\* the quantity of day i of the series, in tenths of a kg
Quantity(i) == india_january[i].Purchase_KG

\* C11 as stated: whatever the samples, the day with the highest quantity
\* is 26 January.
C11_HighestDayIsRepublicDay ==
    pc = "fn_max_day" => january_stats.max_day = 26

\* C11, amended: with the samples of seed 42, which are the ones the code
\* draws, the highest day is 26 January with 1034.5 kg.  For arbitrary
\* samples the highest day is one of 26..30 January: 26 January has at least
\* 892.0 kg and no earlier day more than 872.0 kg, but each of 27..30 January
\* can reach 902.0 kg, and 26 January is the highest day exactly when no later
\* day has more than it.
C11_HighestDayIsMonthEnd ==
    pc = "fn_max_day" =>
        /\ january_stats.max_day \in 26..30
        /\ Quantity(26) >= 8920
        /\ \A i \in 1..25 : Quantity(i) <= 8720
        /\ \A i \in 27..30 : Quantity(i) <= 9020
        /\ january_stats.max_day = 26 <=> \A i \in 27..30 : Quantity(i) <= Quantity(26)
        /\ jan_runs = 1 => (january_stats.max_day = 26 /\ Quantity(26) = 10345)

\* samples of the caller's choice for which 27 January is the highest day
C11_Witness ==
    /\ pc = "fn_max_day"
    /\ jan_runs = 0
    /\ january_stats.max_day = 27
    /\ Quantity(27) = 9020
    /\ Quantity(26) = 8920

\* C12: whatever the samples, every quantity of the daily series is at least
\* 542.0 kg, so none is negative.
C12_QuantityAtLeastBaseLessNoise ==
    pc \in {"fn_daily", "fn_max_day"} =>
        /\ Len(india_january) = 30
        /\ \A i \in 1..Len(india_january) : Quantity(i) >= 5420 /\ Quantity(i) >= 0

\* a day without boost whose noise sample is the lowest there is
C12_Witness ==
    /\ pc = "fn_daily"
    /\ jan_runs = 0
    /\ \E i \in 1..30 : Quantity(i) = 5420

\* the three range options of the radio of lines 213-217
RangeFilters == PriceFilters \ {"All Prices"}

\* the range options that select row i of the price table
SelectedBy(i) ==
    {f \in RangeFilters :
        \E k \in 1..Len(ApplyPriceFilter(historical_data, f)) :
           ApplyPriceFilter(historical_data, f)[k] = historical_data[i]}

\* C13 as stated: every row of the price table is selected by exactly one of
\* the three range filters, and the three selections together are the rows
\* shown under 'All Prices'.
C13_RangeFiltersPartition ==
    PriceStatsShown =>
        /\ \A i \in 1..Len(historical_data) : Cardinality(SelectedBy(i)) = 1
        /\ ApplyPriceFilter(historical_data, "All Prices") = historical_data

\* C13, amended: the three range filters cover the price table, and the
\* rows shown under 'All Prices' are all its rows; a row whose price is not
\* 30000 is selected by exactly one filter (20000 itself by the first only),
\* a row whose price is exactly 30000 by both the second and the third.  The
\* rows a run shows are those its chosen filter selects.
C13_RangeFiltersCoverAndMeetAt30000 ==
    PriceStatsShown =>
        /\ ApplyPriceFilter(historical_data, "All Prices") = historical_data
        /\ filtered_data = ApplyPriceFilter(historical_data, price_filter)
        /\ \A i \in 1..Len(historical_data) :
              LET price == historical_data[i].Silver_Price_INR_per_kg
              IN  /\ SelectedBy(i) # {}
                  /\ price # 30000 => Cardinality(SelectedBy(i)) = 1
                  /\ price = 20000 => SelectedBy(i) = {"<= 20000"}
                  /\ price = 30000 => SelectedBy(i) = {"20000 - 30000", ">= 30000"}

\* a table with the prices 20000 and 30000, shown under the third filter
C13_Witness ==
    /\ pc = "tab2"
    /\ price_filter = ">= 30000"
    /\ Len(historical_data) = 2
    /\ historical_data[1].Silver_Price_INR_per_kg = 20000
    /\ historical_data[2].Silver_Price_INR_per_kg = 30000
    /\ filtered_data = <<historical_data[2]>>
    /\ SelectedBy(2) = {"20000 - 30000", ">= 30000"}

====
